---------------------------- MODULE Spec2Model ----------------------------
(***************************************************************************)
(* A model of hack/check-image-tags.py: the extraction of *_image_tag      *)
(* declarations from a YAML-like document, the enumeration of tags by an   *)
(* external command, the version ordering of tags and the classification   *)
(* of each declaration against the latest tag.                             *)
(*                                                                         *)
(* A Python str is a sequence of one-character strings; None is the empty  *)
(* sequence and a value v that may be None is <<v>>.                       *)
(***************************************************************************)
EXTENDS Integers, Sequences, FiniteSets, TLC

VARIABLES
    pc,                 \* position of main(): "start", "loop", "exited", "crashed"
    args,               \* argparse result: [json, updates_only]
    file,               \* <<>> when the path does not exist, else <<lines>>
    image_tags,         \* main: image_tags, the list parse_image_tag_lines returned
    results,            \* main: results
    updates_available,  \* main: updates_available
    status,             \* main: the local variable status (<<>> while unbound)
    next_item,          \* main: the index of the item the for loop yields next
    proc,               \* what subprocess.run did for each item checked so far
    exit_code,          \* process exit status (<<>> while running)
    arg_tags,           \* direct calls: the tag list passed in
    ret_keys,           \* direct calls: parse_version of each tag
    ret_latest          \* direct calls: what get_latest_tag returned

vars == <<pc, args, file, image_tags, results, updates_available, status,
          next_item, proc, exit_code, arg_tags, ret_keys, ret_latest>>

None == <<>>
Some(v) == <<v>>

-----------------------------------------------------------------------------
(* Characters and str operations                                           *)

\* ord(c) for the characters that occur
ord ==
    ("\n" :> 10) @@ ("\t" :> 9) @@ (" " :> 32) @@ ("\"" :> 34) @@ ("#" :> 35) @@ ("'" :> 39) @@ ("-" :> 45)
    @@ ("." :> 46) @@ ("/" :> 47) @@ ("0" :> 48) @@ ("1" :> 49) @@ ("2" :> 50)
    @@ ("3" :> 51) @@ ("4" :> 52) @@ ("5" :> 53) @@ ("6" :> 54) @@ ("7" :> 55)
    @@ ("8" :> 56) @@ ("9" :> 57) @@ (":" :> 58) @@ ("A" :> 65) @@ ("B" :> 66)
    @@ ("C" :> 67) @@ ("D" :> 68) @@ ("E" :> 69) @@ ("F" :> 70) @@ ("G" :> 71)
    @@ ("H" :> 72) @@ ("I" :> 73) @@ ("J" :> 74) @@ ("K" :> 75) @@ ("L" :> 76)
    @@ ("M" :> 77) @@ ("N" :> 78) @@ ("O" :> 79) @@ ("P" :> 80) @@ ("Q" :> 81)
    @@ ("R" :> 82) @@ ("S" :> 83) @@ ("T" :> 84) @@ ("U" :> 85) @@ ("V" :> 86)
    @@ ("W" :> 87) @@ ("X" :> 88) @@ ("Y" :> 89) @@ ("Z" :> 90) @@ ("[" :> 91)
    @@ ("]" :> 93) @@ ("_" :> 95) @@ ("a" :> 97) @@ ("b" :> 98) @@ ("c" :> 99)
    @@ ("d" :> 100) @@ ("e" :> 101) @@ ("f" :> 102) @@ ("g" :> 103) @@ ("h" :> 104)
    @@ ("i" :> 105) @@ ("j" :> 106) @@ ("k" :> 107) @@ ("l" :> 108) @@ ("m" :> 109)
    @@ ("n" :> 110) @@ ("o" :> 111) @@ ("p" :> 112) @@ ("q" :> 113) @@ ("r" :> 114)
    @@ ("s" :> 115) @@ ("t" :> 116) @@ ("u" :> 117) @@ ("v" :> 118) @@ ("w" :> 119)
    @@ ("x" :> 120) @@ ("y" :> 121) @@ ("z" :> 122) @@ ("|" :> 124)

Digits == {"0", "1", "2", "3", "4", "5", "6", "7", "8", "9"}

\* str.lower() on one character: A-Z map to a-z
LowerChar(c) ==
    IF ord[c] >= 65 /\ ord[c] <= 90
    THEN CHOOSE d \in DOMAIN ord : ord[d] = ord[c] + 32
    ELSE c

lower(s) == [i \in 1..Len(s) |-> LowerChar(s[i])]

startswith(s, prefix) ==
    /\ Len(s) >= Len(prefix)
    /\ SubSeq(s, 1, Len(prefix)) = prefix

\* s < t for two str: code point order, a proper prefix is the lesser
StrLess(s, t) ==
    LET m == IF Len(s) < Len(t) THEN Len(s) ELSE Len(t)
        diff == {i \in 1..m : s[i] # t[i]}
    IN  IF diff = {}
        THEN Len(s) < Len(t)
        ELSE LET i == CHOOSE k \in diff : \A j \in diff : k <= j
             IN  ord[s[i]] < ord[t[i]]


-----------------------------------------------------------------------------
(* parse_version: the sort key of a tag                                    *)

\* The elements a key tuple is made of: an int, float("inf") or a str.
IntElem(n) == [kind |-> "int", num |-> n, str |-> <<>>]
InfElem == [kind |-> "inf", num |-> 0, str |-> <<>>]
StrElem(s) == [kind |-> "str", num |-> 0, str |-> s]

\* for prefix in ("v", "version-v", "version-")
Prefixes ==
    << <<"v">>,
       <<"v", "e", "r", "s", "i", "o", "n", "-", "v">>,
       <<"v", "e", "r", "s", "i", "o", "n", "-">> >>

\* The prefix loop: the first prefix that cleaned.lower() starts with is cut
\* off, and the loop breaks.
RemovePrefix(tag) ==
    LET hits == {i \in 1..Len(Prefixes) : startswith(lower(tag), Prefixes[i])}
    IN  IF hits = {}
        THEN tag
        ELSE LET first == CHOOSE i \in hits : \A j \in hits : i <= j
             IN  SubSeq(tag, Len(Prefixes[first]) + 1, Len(tag))

Separators == {".", "-", "_"}

\* The number of consecutive digits of s from position i on (\d+ is greedy).
RECURSIVE DigitRun(_, _)
DigitRun(s, i) ==
    IF i <= Len(s) /\ s[i] \in Digits THEN 1 + DigitRun(s, i + 1) ELSE 0

\* (?:[.\-_]\d+)* from the end e of what has matched: each round needs a
\* separator and at least one digit after it.
RECURSIVE MoreGroups(_, _)
MoreGroups(s, e) ==
    IF e + 1 <= Len(s) /\ s[e + 1] \in Separators /\ DigitRun(s, e + 2) > 0
    THEN MoreGroups(s, e + 1 + DigitRun(s, e + 2))
    ELSE e

\* re.match(r"^(\d+(?:[.\-_]\d+)*)", cleaned): group 1, or None
VersionMatch(cleaned) ==
    IF DigitRun(cleaned, 1) = 0
    THEN None
    ELSE Some(SubSeq(cleaned, 1, MoreGroups(cleaned, DigitRun(cleaned, 1))))

\* re.split(r"[.\-_]", version_str)
RECURSIVE Split(_)
Split(version_str) ==
    LET seps == {i \in 1..Len(version_str) : version_str[i] \in Separators}
    IN  IF seps = {}
        THEN <<version_str>>
        ELSE LET i == CHOOSE k \in seps : \A j \in seps : k <= j
             IN  <<SubSeq(version_str, 1, i - 1)>>
                 \o Split(SubSeq(version_str, i + 1, Len(version_str)))

DigitValue(c) == ord[c] - 48

\* int(p) for a str of decimal digits
RECURSIVE int(_)
int(p) ==
    IF Len(p) = 0
    THEN 0
    ELSE 10 * int(SubSeq(p, 1, Len(p) - 1)) + DigitValue(p[Len(p)])

\* A variant with the sentinel 0 in the place of float("inf")
FallbackKeyZero(tag) == <<IntElem(0), StrElem(tag)>>

\* The fallback key (float("inf"), tag)
FallbackKey(tag) == <<InfElem, StrElem(tag)>>

\* A variant without the conversion to int: the parts compare as str.
parse_version_no_int(tag) ==
    LET cleaned == RemovePrefix(tag)
        version_match == VersionMatch(cleaned)
    IN  IF version_match # None
        THEN LET parts == Split(version_match[1])
             IN  [i \in 1..Len(parts) |-> StrElem(parts[i])]
        ELSE FallbackKey(tag)

\* Every part that Split yields from a match is a non-empty run of ASCII
\* digits, which int() accepts: the ValueError branch is never taken.
parse_version(tag) ==
    LET cleaned == RemovePrefix(tag)
        version_match == VersionMatch(cleaned)
    IN  IF version_match # None
        THEN LET parts == Split(version_match[1])
             IN  [i \in 1..Len(parts) |-> IntElem(int(parts[i]))]
        ELSE FallbackKey(tag)

-----------------------------------------------------------------------------
(* Tuple comparison and sorted()                                           *)

\* a < b for two tuple elements. An int is below float("inf"), which is not
\* below itself. An int is never compared with a str: a fallback key and a
\* numeric key differ in their first elements.
ElemLess(a, b) ==
    CASE a.kind = "int" /\ b.kind = "int" -> a.num < b.num
      [] a.kind = "int" /\ b.kind = "inf" -> TRUE
      [] a.kind = "str" /\ b.kind = "str" -> StrLess(a.str, b.str)
      [] OTHER -> FALSE

\* x < y for two tuples: the first differing position decides, and a proper
\* prefix is the lesser.
TupleLess(x, y) ==
    LET m == IF Len(x) < Len(y) THEN Len(x) ELSE Len(y)
        diff == {i \in 1..m : x[i] # y[i]}
    IN  IF diff = {}
        THEN Len(x) < Len(y)
        ELSE LET i == CHOOSE k \in diff : \A j \in diff : k <= j
             IN  ElemLess(x[i], y[i])

RECURSIVE Reverse(_)
Reverse(s) == IF s = <<>> THEN <<>> ELSE Reverse(Tail(s)) \o <<Head(s)>>

\* One step of a stable ascending sort of [key, value] entries: e goes behind
\* every entry whose key is not greater than its own.
RECURSIVE Insert(_, _)
Insert(e, sorted) ==
    IF sorted = <<>>
    THEN <<e>>
    ELSE IF TupleLess(e.key, Head(sorted).key)
         THEN <<e>> \o sorted
         ELSE <<Head(sorted)>> \o Insert(e, Tail(sorted))

RECURSIVE SortAscending(_)
SortAscending(entries) ==
    IF entries = <<>>
    THEN <<>>
    ELSE Insert(entries[Len(entries)],
                SortAscending(SubSeq(entries, 1, Len(entries) - 1)))

\* A variant that sorts ascending and reverses the outcome: equal keys come
\* out in reverse input order.
SortAscendingReversed(entries) == Reverse(SortAscending(entries))

\* list.sort(reverse=True): the list is reversed, sorted ascending and
\* stably, and reversed again, so equal keys keep their input order.
SortDescending(entries) == Reverse(SortAscending(Reverse(entries)))

\* sorted(tags, key=parse_version, reverse=True): each key is computed once.
sorted_tags(tags) ==
    LET entries == [i \in 1..Len(tags) |->
                       [key |-> parse_version(tags[i]), value |-> tags[i]]]
        ordered == SortDescending(entries)
    IN  [i \in 1..Len(ordered) |-> ordered[i].value]

\* get_latest_tag(tags, current_value): None for no tags, else the first of
\* the tags sorted highest first. current_value is not used.
get_latest_tag(tags, current_value) ==
    IF tags = <<>> THEN None ELSE Some(sorted_tags(tags)[1])

\* A variant that compares the sort keys and not the spellings
compare_versions_by_key(current, latest) ==
    IF parse_version(current) = parse_version(latest)
    THEN "up-to-date"
    ELSE "update-available"

compare_versions(current, latest) ==
    IF current = latest THEN "up-to-date" ELSE "update-available"


-----------------------------------------------------------------------------
(* parse_image_tag_lines: the declarations of a document                   *)

\* What \s and str.strip() take for whitespace
Whitespace == {" ", "\t", "\n"}
Quotes == {"\"", "'"}

\* \w: letters, digits and the underscore
IsWord(c) ==
    \/ c \in Digits
    \/ c = "_"
    \/ (ord[c] >= 65 /\ ord[c] <= 90)
    \/ (ord[c] >= 97 /\ ord[c] <= 122)

\* [^"'#\s]
IsValueChar(c) == c \notin Quotes /\ c # "#" /\ c \notin Whitespace

\* A variant that strips nothing: the line is matched as it was read.
strip_nothing(s) == s

\* str.strip()
RECURSIVE strip(_)
strip(s) ==
    IF s = <<>> THEN s
    ELSE IF Head(s) \in Whitespace THEN strip(Tail(s))
    ELSE IF s[Len(s)] \in Whitespace THEN strip(SubSeq(s, 1, Len(s) - 1))
    ELSE s

\* The lengths of the runs that the greedy \w+, \s* and [^"'#\s]+ take at i.
RECURSIVE WordRun(_, _)
WordRun(s, i) == IF i <= Len(s) /\ IsWord(s[i]) THEN 1 + WordRun(s, i + 1) ELSE 0

RECURSIVE SpaceRun(_, _)
SpaceRun(s, i) ==
    IF i <= Len(s) /\ s[i] \in Whitespace THEN 1 + SpaceRun(s, i + 1) ELSE 0

RECURSIVE ValueRun(_, _)
ValueRun(s, i) ==
    IF i <= Len(s) /\ IsValueChar(s[i]) THEN 1 + ValueRun(s, i + 1) ELSE 0

\* s holds the literal word at position i
LiteralAt(s, i, word) ==
    /\ i + Len(word) - 1 <= Len(s)
    /\ SubSeq(s, i, i + Len(word) - 1) = word

\* ["']? at i: the position behind the optional quote
SkipQuote(s, i) == IF i <= Len(s) /\ s[i] \in Quotes THEN i + 1 ELSE i

ImageTagSuffix == <<"_", "i", "m", "a", "g", "e", "_", "t", "a", "g">>
SkopeoWord == <<"s", "k", "o", "p", "e", "o">>
ListTagsWord == <<"l", "i", "s", "t", "-", "t", "a", "g", "s">>

\* pattern.match(s) for
\*   ^(\w+_image_tag):\s*["']?([^"'#\s]+)["']?\s*#\s*(skopeo\s+list-tags\s+.+)$
\* None, or the three groups. Every piece is followed by a character outside
\* its own class, so each greedy run is the only one that can match:
\*   group 1 is the whole word run before the colon; it ends in _image_tag
\*     behind at least one more word character;
\*   group 2 is the whole run of value characters behind the optional quote;
\*   . matches every character of a line, so .+ needs one character, which the
\*     last \s+ gives back when nothing else follows it.
MatchLine(s) ==
    LET w == WordRun(s, 1)
        v0 == SkipQuote(s, w + 2 + SpaceRun(s, w + 2))
        vn == ValueRun(s, v0)
        q == SkipQuote(s, v0 + vn)
        h == q + SpaceRun(s, q)
        c0 == h + 1 + SpaceRun(s, h + 1)
        s1 == c0 + Len(SkopeoWord)
        l0 == s1 + SpaceRun(s, s1)
        s2 == l0 + Len(ListTagsWord)
        r0 == s2 + SpaceRun(s, s2)
    IN  IF /\ w >= Len(ImageTagSuffix) + 1
           /\ LiteralAt(s, w - Len(ImageTagSuffix) + 1, ImageTagSuffix)
           /\ LiteralAt(s, w + 1, <<":">>)
           /\ vn >= 1
           /\ LiteralAt(s, h, <<"#">>)
           /\ LiteralAt(s, c0, SkopeoWord)
           /\ SpaceRun(s, s1) >= 1
           /\ LiteralAt(s, l0, ListTagsWord)
           /\ SpaceRun(s, s2) >= 1
           /\ (r0 <= Len(s) \/ SpaceRun(s, s2) >= 2)
        THEN Some([variable |-> SubSeq(s, 1, w),
                   current_value |-> SubSeq(s, v0, v0 + vn - 1),
                   skopeo_command |-> SubSeq(s, c0, Len(s))])
        ELSE None

\* The loop of parse_image_tag_lines over the lines 1..n of the file
RECURSIVE ParseLines(_, _)
ParseLines(lines, n) ==
    IF n = 0
    THEN <<>>
    ELSE LET match == MatchLine(strip(lines[n]))
         IN  IF match # None
             THEN Append(ParseLines(lines, n - 1),
                         [variable |-> match[1].variable,
                          current_value |-> match[1].current_value,
                          skopeo_command |-> match[1].skopeo_command,
                          line_number |-> n])
             ELSE ParseLines(lines, n - 1)

parse_image_tag_lines(lines) == ParseLines(lines, Len(lines))


-----------------------------------------------------------------------------
(* run_skopeo_command: the tags an enumeration command lists               *)

\* str.split("\n")
RECURSIVE SplitLines(_)
SplitLines(text) ==
    LET breaks == {i \in 1..Len(text) : text[i] = "\n"}
    IN  IF breaks = {}
        THEN <<text>>
        ELSE LET i == CHOOSE k \in breaks : \A j \in breaks : k <= j
             IN  <<SubSeq(text, 1, i - 1)>>
                 \o SplitLines(SubSeq(text, i + 1, Len(text)))

\* [tag.strip() for tag in lines if tag.strip()]
RECURSIVE StripNonEmpty(_)
StripNonEmpty(lines) ==
    IF lines = <<>>
    THEN <<>>
    ELSE IF strip(Head(lines)) # <<>>
         THEN <<strip(Head(lines))>> \o StripNonEmpty(Tail(lines))
         ELSE StripNonEmpty(Tail(lines))

\* A variant that does not look at the exit status
run_skopeo_command_any_status(run) ==
    IF run.kind = "exit"
    THEN Some(StripNonEmpty(SplitLines(strip(run.stdout))))
    ELSE None

\* run is what subprocess.run did: it returned a completed process (kind
\* "exit", with returncode and stdout), raised TimeoutExpired (kind "timeout")
\* or raised another exception (kind "fault"). None, or the list of tags.
run_skopeo_command(run) ==
    IF run.kind = "exit"
    THEN IF run.returncode # 0
         THEN None
         ELSE Some(StripNonEmpty(SplitLines(strip(run.stdout))))
    ELSE None

-----------------------------------------------------------------------------
(* The runs of main that are explored                                      *)

\* The document has at most MaxItems lines; an enumeration lists at most
\* MaxOut tags.
MaxItems == 2
MaxOut == 11

\* All sequences over S of length at most n
RECURSIVE SeqsUpTo(_, _)
SeqsUpTo(S, n) ==
    IF n = 0
    THEN {<<>>}
    ELSE LET shorter == SeqsUpTo(S, n - 1)
         IN  shorter \cup {Append(q, x) : q \in shorter, x \in S}

\* Lines of a document: two declarations and a line that is none
MainLines ==
    { <<"a", "_", "i", "m", "a", "g", "e", "_", "t", "a", "g", ":", " ", "\"", "1", "6", ".", "9", "\"", " ", " ", "#", " ", "s", "k", "o", "p", "e", "o", " ", "l", "i", "s", "t", "-", "t", "a", "g", "s", " ", "x">>,
      <<" ", "b", "_", "i", "m", "a", "g", "e", "_", "t", "a", "g", ":", " ", "v", "1", "6", ".", "9", " ", "#", "s", "k", "o", "p", "e", "o", " ", "l", "i", "s", "t", "-", "t", "a", "g", "s", " ", "y", " ", "|", " ", "j", "q">>,
      <<"c", "_", "i", "m", "a", "g", "e", "_", "t", "a", "g", ":", " ", "\"", "1", "6", ".", "9", "\"", " ", " ", "#", " ", "r", "e", "n", "o", "v", "a", "t", "e">> }

Files ==
    {[state |-> "missing", lines |-> <<>>], [state |-> "unreadable", lines |-> <<>>]}
    \cup {[state |-> "ok", lines |-> d] : d \in SeqsUpTo(MainLines, MaxItems)}

DigitChar(d) == CHOOSE c \in Digits : ord[c] = 48 + d

RECURSIVE Decimal(_)
Decimal(n) ==
    IF n < 10 THEN <<DigitChar(n)>> ELSE Decimal(n \div 10) \o <<DigitChar(n % 10)>>

\* The n-th tag of a long listing: an opaque tag first, then 3.2, 3.3, ...
ListedTag(n) ==
    IF n = 1 THEN <<"l", "a", "t", "e", "s", "t">> ELSE <<"3", ".">> \o Decimal(n)

\* The standard output that lists the first n of these tags, one on a line
RECURSIVE Listing(_)
Listing(n) ==
    IF n = 0 THEN <<>> ELSE Listing(n - 1) \o ListedTag(n) \o <<"\n">>

\* What a command writes when it exits with status 0: nothing, blank lines,
\* one tag, tags with blanks around them and an empty line, two spellings of
\* one version, and a listing of MaxOut tags.
Outputs ==
    { <<>>,
      <<"\n", " ", "\n">>,
      <<"1", "6", ".", "9", "\n">>,
      <<"1", "6", ".", "9", "\n", " ", "1", "6", ".", "1", "1", " ", "\n", "\n">>,
      <<"v", "1", "6", ".", "9", "\n", "1", "6", ".", "9", "\n">>,
      Listing(MaxOut) }

Exited(returncode, stdout) ==
    [kind |-> "exit", returncode |-> returncode, stdout |-> stdout]

\* What subprocess.run may do: the command exits with status 0, or with
\* status 1 (whatever it has written), or it outlives the timeout, or it
\* cannot be run.
Runs ==
    {Exited(0, out) : out \in Outputs}
    \cup {Exited(1, <<"1", "6", ".", "9", "\n">>),
          [kind |-> "timeout", returncode |-> 0, stdout |-> <<>>],
          [kind |-> "fault", returncode |-> 0, stdout |-> <<>>]}

-----------------------------------------------------------------------------
(* main                                                                    *)

KeepTags == 10

\* A variant that keeps the first tags, tags[:10]
FirstTags(tags) ==
    IF Len(tags) <= KeepTags THEN tags ELSE SubSeq(tags, 1, KeepTags)

\* tags[-10:]
LastTags(tags) ==
    IF Len(tags) <= KeepTags
    THEN tags
    ELSE SubSeq(tags, Len(tags) - KeepTags + 1, Len(tags))

\* The truth value of an Optional[str]: None and "" are false
Truthy(opt) == opt # None /\ opt[1] # <<>>

\* Lines 179-211: the arguments are parsed, the path is resolved and the file
\* is parsed. A missing file and a file without declarations end the run;
\* a file that cannot be opened raises out of main.
Start ==
    /\ pc = "start"
    /\ IF file.state = "missing"
       THEN /\ pc' = "exited"
            /\ exit_code' = Some(1)
            /\ UNCHANGED <<image_tags, next_item>>
       ELSE IF file.state = "unreadable"
       THEN /\ pc' = "crashed"
            /\ exit_code' = Some(1)
            /\ UNCHANGED <<image_tags, next_item>>
       ELSE /\ image_tags' = parse_image_tag_lines(file.lines)
            /\ IF image_tags' = <<>>
               THEN /\ pc' = "exited"
                    /\ exit_code' = Some(0)
                    /\ UNCHANGED next_item
               ELSE /\ pc' = "loop"
                    /\ next_item' = 1
                    /\ UNCHANGED exit_code
    /\ results' = <<>>
    /\ updates_available' = 0
    /\ UNCHANGED <<args, file, status, proc, arg_tags, ret_keys, ret_latest>>

\* A variant of the round below that leaves the loop (break) when the
\* enumeration has failed
CheckItemRunBreak(run) ==
    LET item == image_tags[next_item]
        current == item.current_value
        tags == run_skopeo_command(run)
        latest == get_latest_tag(tags[1], current)
        new_status == IF Truthy(latest)
                      THEN compare_versions(current, latest[1])
                      ELSE "unknown"
        result(latest_value, st, all_tags) ==
            [variable |-> item.variable,
             current_value |-> item.current_value,
             skopeo_command |-> item.skopeo_command,
             line_number |-> item.line_number,
             latest_value |-> latest_value,
             status |-> st,
             all_tags |-> all_tags]
    IN  /\ proc' = Append(proc, run)
        /\ next_item' = IF tags = None THEN Len(image_tags) + 1 ELSE next_item + 1
        /\ IF tags = None
           THEN /\ results' = Append(results, result(None, "error", <<>>))
                /\ UNCHANGED <<status, updates_available>>
           ELSE /\ status' = Some(new_status)
                /\ updates_available' =
                       IF new_status = "update-available"
                       THEN updates_available + 1
                       ELSE updates_available
                /\ results' = Append(results,
                       result(latest, new_status,
                              IF tags[1] # <<>> THEN LastTags(tags[1]) ELSE <<>>))
        /\ UNCHANGED <<pc, args, file, image_tags, exit_code,
                       arg_tags, ret_keys, ret_latest>>


\* One round of the loop of lines 213-253, for what subprocess.run does
CheckItemRun(run) ==
    LET item == image_tags[next_item]
        current == item.current_value
        tags == run_skopeo_command(run)
        latest == get_latest_tag(tags[1], current)
        new_status == IF Truthy(latest)
                      THEN compare_versions(current, latest[1])
                      ELSE "unknown"
        result(latest_value, st, all_tags) ==
            [variable |-> item.variable,
             current_value |-> item.current_value,
             skopeo_command |-> item.skopeo_command,
             line_number |-> item.line_number,
             latest_value |-> latest_value,
             status |-> st,
             all_tags |-> all_tags]
    IN  /\ proc' = Append(proc, run)
        /\ next_item' = next_item + 1
        /\ IF tags = None
           THEN /\ results' = Append(results, result(None, "error", <<>>))
                /\ UNCHANGED <<status, updates_available>>
           ELSE /\ status' = Some(new_status)
                /\ updates_available' =
                       IF new_status = "update-available"
                       THEN updates_available + 1
                       ELSE updates_available
                /\ results' = Append(results,
                       result(latest, new_status,
                              IF tags[1] # <<>> THEN LastTags(tags[1]) ELSE <<>>))
        /\ UNCHANGED <<pc, args, file, image_tags, exit_code,
                       arg_tags, ret_keys, ret_latest>>


\* The items of the loop are taken in order until none is left.
CheckItem ==
    /\ pc = "loop"
    /\ next_item <= Len(image_tags)
    /\ \E run \in Runs : CheckItemRun(run)

\* r is printed: line 268 and line 282 skip the others under --updates-only
Shown(r) == ~(args.updates_only /\ r.status # "update-available")

\* Lines 255-302, behind the loop: the results are written and the process
\* exits. What is printed is left out; the control flow is kept:
\*   --json with --updates-only rebinds results to the filtered list;
\*   the first text loop reads the local variable status for every result it
\*   does not skip (line 274). status is bound only by line 236, in a round
\*   whose enumeration succeeded, so the read raises UnboundLocalError when
\*   no round has bound it; the exception leaves main and the interpreter
\*   exits with status 1;
\*   the second text loop binds status to the status of each result shown.
Finish ==
    /\ pc = "loop"
    /\ next_item > Len(image_tags)
    /\ LET shown == SelectSeq(results, Shown)
       IN  IF args.json
           THEN /\ results' = IF args.updates_only
                              THEN SelectSeq(results,
                                       LAMBDA r : r.status = "update-available")
                              ELSE results
                /\ pc' = "exited"
                /\ exit_code' = Some(IF updates_available = 0 THEN 0 ELSE 1)
                /\ UNCHANGED status
           ELSE IF shown # <<>> /\ status = None
           THEN /\ pc' = "crashed"
                /\ exit_code' = Some(1)
                /\ UNCHANGED <<results, status>>
           ELSE /\ status' = IF shown # <<>>
                             THEN Some(shown[Len(shown)].status)
                             ELSE status
                /\ pc' = "exited"
                /\ exit_code' = Some(IF updates_available = 0 THEN 0 ELSE 1)
                /\ UNCHANGED results
    /\ UNCHANGED <<args, file, image_tags, updates_available, next_item, proc,
                   arg_tags, ret_keys, ret_latest>>

Init ==
    /\ pc = "start"
    /\ args \in [json : BOOLEAN, updates_only : BOOLEAN]
    /\ file \in Files
    /\ image_tags = <<>>
    /\ results = <<>>
    /\ updates_available = 0
    /\ status = None
    /\ next_item = 0
    /\ proc = <<>>
    /\ exit_code = None
    /\ arg_tags = <<>>
    /\ ret_keys = <<>>
    /\ ret_latest = None

Next == Start \/ CheckItem \/ Finish

Spec == Init /\ [][Next]_vars


-----------------------------------------------------------------------------
(* Direct calls of parse_version and get_latest_tag                        *)

\* A tag list has at most MaxTags tags.
MaxTags == 3

\* The tags of the docstring of parse_version and of the tag lists the
\* script is used on, with and without a prefix
TagPool ==
    { <<"1", "6", ".", "9">>,
      <<"1", "6", ".", "1", "1">>,
      <<"1", "6">>,
      <<"1", "6", ".", "0">>,
      <<"3", ".", "6", ".", "5">>,
      <<"v", "3", ".", "6", ".", "5">>,
      <<"V", "1", "6", ".", "9">>,
      <<"3", "-", "1", "3">>,
      <<"3", ".", "1", "3">>,
      <<"v", "e", "r", "s", "i", "o", "n", "-", "v", "3", ".", "1", "3">>,
      <<"v", "e", "r", "s", "i", "o", "n", "-", "3", ".", "1", "3">>,
      <<"l", "a", "t", "e", "s", "t">>,
      <<"R", "E", "L", "E", "A", "S", "E", ".", "2", "0", "2", "3", "-", "1", "2", "-", "2", "3", "T", "0", "7", "-", "1", "9", "-", "1", "1", "Z">> }

InitVersion ==
    /\ pc = "call"
    /\ arg_tags \in SeqsUpTo(TagPool, MaxTags)
    /\ ret_keys = <<>>
    /\ ret_latest = None
    /\ args = [json |-> FALSE, updates_only |-> FALSE]
    /\ file = [state |-> "missing", lines |-> <<>>]
    /\ image_tags = <<>>
    /\ results = <<>>
    /\ updates_available = 0
    /\ status = None
    /\ next_item = 0
    /\ proc = <<>>
    /\ exit_code = None

\* parse_version is called on each tag of the list
CallParseVersion ==
    /\ pc = "call"
    /\ ret_keys' = [i \in 1..Len(arg_tags) |-> parse_version(arg_tags[i])]
    /\ pc' = "keys"
    /\ UNCHANGED <<args, file, image_tags, results, updates_available, status,
                   next_item, proc, exit_code, arg_tags, ret_latest>>

\* get_latest_tag is called on the list
CallGetLatestTag ==
    /\ pc = "keys"
    /\ ret_latest' = get_latest_tag(arg_tags, <<>>)
    /\ pc' = "done"
    /\ UNCHANGED <<args, file, image_tags, results, updates_available, status,
                   next_item, proc, exit_code, arg_tags, ret_keys>>

NextVersion == CallParseVersion \/ CallGetLatestTag

SpecVersion == InitVersion /\ [][NextVersion]_vars


-----------------------------------------------------------------------------
(* Direct calls of parse_image_tag_lines                                   *)

\* A document has at most MaxLines lines.
MaxLines == 2

\* Lines by their parts: blanks, a variable, a colon, blanks, a quote, a
\* value, a quote, blanks, a #, and a comment of blanks, two words with
\* blanks behind each and the rest; blanks end the line.
LineShapes ==
    {
      \* a declaration with a double-quoted value and a piped command
      [lead |-> <<>>, variable |-> <<"a", "_", "i", "m", "a", "g", "e", "_", "t", "a", "g">>,
       colon |-> <<":">>, pre |-> <<" ">>, open |-> <<"\"">>, value |-> <<"1", ".", "2">>,
       close |-> <<"\"">>, gap |-> <<" ", " ">>, hash |-> <<"#">>, indent |-> <<" ">>,
       word1 |-> <<"s", "k", "o", "p", "e", "o">>, space1 |-> <<" ">>,
       word2 |-> <<"l", "i", "s", "t", "-", "t", "a", "g", "s">>, space2 |-> <<" ">>,
       rest |-> <<"x", " ", "|", " ", "j", "q">>, trail |-> <<>>],
      \* blanks around the line, no quotes, no blank behind #, a tab in the command
      [lead |-> <<" ", " ">>,
       variable |-> <<"b", "_", "i", "m", "a", "g", "e", "_", "t", "a", "g">>,
       colon |-> <<":">>, pre |-> <<" ">>, open |-> <<>>, value |-> <<"v", "3">>,
       close |-> <<>>, gap |-> <<" ">>, hash |-> <<"#">>, indent |-> <<>>,
       word1 |-> <<"s", "k", "o", "p", "e", "o">>, space1 |-> <<" ", " ">>,
       word2 |-> <<"l", "i", "s", "t", "-", "t", "a", "g", "s">>, space2 |-> <<"\t">>,
       rest |-> <<"y">>, trail |-> <<" ">>],
      \* single quotes, # right behind the value, a second # in the command
      [lead |-> <<>>, variable |-> <<"c", "_", "i", "m", "a", "g", "e", "_", "t", "a", "g">>,
       colon |-> <<":">>, pre |-> <<" ">>, open |-> <<"'">>, value |-> <<"2">>,
       close |-> <<"'">>, gap |-> <<>>, hash |-> <<"#">>, indent |-> <<" ">>,
       word1 |-> <<"s", "k", "o", "p", "e", "o">>, space1 |-> <<" ">>,
       word2 |-> <<"l", "i", "s", "t", "-", "t", "a", "g", "s">>, space2 |-> <<" ">>,
       rest |-> <<"z", "#", "1">>, trail |-> <<>>],
      \* the shortest variable name
      [lead |-> <<>>, variable |-> <<"_", "_", "i", "m", "a", "g", "e", "_", "t", "a", "g">>,
       colon |-> <<":">>, pre |-> <<>>, open |-> <<>>, value |-> <<"1", ".", "2">>,
       close |-> <<>>, gap |-> <<" ">>, hash |-> <<"#">>, indent |-> <<" ">>,
       word1 |-> <<"s", "k", "o", "p", "e", "o">>, space1 |-> <<" ">>,
       word2 |-> <<"l", "i", "s", "t", "-", "t", "a", "g", "s">>, space2 |-> <<" ">>,
       rest |-> <<"x">>, trail |-> <<>>],
      \* a comment that is no skopeo command
      [lead |-> <<>>, variable |-> <<"d", "_", "i", "m", "a", "g", "e", "_", "t", "a", "g">>,
       colon |-> <<":">>, pre |-> <<" ">>, open |-> <<"\"">>, value |-> <<"1", ".", "2">>,
       close |-> <<"\"">>, gap |-> <<" ">>, hash |-> <<"#">>, indent |-> <<" ">>,
       word1 |-> <<"r", "e", "n", "o", "v", "a", "t", "e", ":">>, space1 |-> <<>>,
       word2 |-> <<>>, space2 |-> <<" ">>, rest |-> <<"x">>, trail |-> <<>>],
      \* no comment
      [lead |-> <<>>, variable |-> <<"e", "_", "i", "m", "a", "g", "e", "_", "t", "a", "g">>,
       colon |-> <<":">>, pre |-> <<" ">>, open |-> <<"\"">>, value |-> <<"1", ".", "2">>,
       close |-> <<"\"">>, gap |-> <<>>, hash |-> <<>>, indent |-> <<>>, word1 |-> <<>>,
       space1 |-> <<>>, word2 |-> <<>>, space2 |-> <<>>, rest |-> <<>>, trail |-> <<>>],
      \* a variable that does not end in _image_tag
      [lead |-> <<>>, variable |-> <<"f", "_", "i", "m", "a", "g", "e">>, colon |-> <<":">>,
       pre |-> <<" ">>, open |-> <<"\"">>, value |-> <<"1", ".", "2">>, close |-> <<"\"">>,
       gap |-> <<" ">>, hash |-> <<"#">>, indent |-> <<" ">>,
       word1 |-> <<"s", "k", "o", "p", "e", "o">>, space1 |-> <<" ">>,
       word2 |-> <<"l", "i", "s", "t", "-", "t", "a", "g", "s">>, space2 |-> <<" ">>,
       rest |-> <<"x">>, trail |-> <<>>],
      \* Skopeo with a capital
      [lead |-> <<>>, variable |-> <<"g", "_", "i", "m", "a", "g", "e", "_", "t", "a", "g">>,
       colon |-> <<":">>, pre |-> <<" ">>, open |-> <<"\"">>, value |-> <<"1", ".", "2">>,
       close |-> <<"\"">>, gap |-> <<" ">>, hash |-> <<"#">>, indent |-> <<" ">>,
       word1 |-> <<"S", "k", "o", "p", "e", "o">>, space1 |-> <<" ">>,
       word2 |-> <<"l", "i", "s", "t", "-", "t", "a", "g", "s">>, space2 |-> <<" ">>,
       rest |-> <<"x">>, trail |-> <<>>],
      \* a comment alone
      [lead |-> <<>>, variable |-> <<>>, colon |-> <<>>, pre |-> <<>>, open |-> <<>>,
       value |-> <<>>, close |-> <<>>, gap |-> <<>>, hash |-> <<"#">>, indent |-> <<" ">>,
       word1 |-> <<"s", "k", "o", "p", "e", "o">>, space1 |-> <<" ">>,
       word2 |-> <<"l", "i", "s", "t", "-", "t", "a", "g", "s">>, space2 |-> <<" ">>,
       rest |-> <<"x">>, trail |-> <<>>],
      \* an empty line
      [lead |-> <<>>, variable |-> <<>>, colon |-> <<>>, pre |-> <<>>, open |-> <<>>,
       value |-> <<>>, close |-> <<>>, gap |-> <<>>, hash |-> <<>>, indent |-> <<>>,
       word1 |-> <<>>, space1 |-> <<>>, word2 |-> <<>>, space2 |-> <<>>, rest |-> <<>>,
       trail |-> <<>>],
      \* an empty value
      [lead |-> <<>>, variable |-> <<"h", "_", "i", "m", "a", "g", "e", "_", "t", "a", "g">>,
       colon |-> <<":">>, pre |-> <<" ">>, open |-> <<"\"">>, value |-> <<>>,
       close |-> <<"\"">>, gap |-> <<" ">>, hash |-> <<"#">>, indent |-> <<" ">>,
       word1 |-> <<"s", "k", "o", "p", "e", "o">>, space1 |-> <<" ">>,
       word2 |-> <<"l", "i", "s", "t", "-", "t", "a", "g", "s">>, space2 |-> <<" ">>,
       rest |-> <<"x">>, trail |-> <<>>],
      \* a blank in the value
      [lead |-> <<>>, variable |-> <<"i", "_", "i", "m", "a", "g", "e", "_", "t", "a", "g">>,
       colon |-> <<":">>, pre |-> <<" ">>, open |-> <<"\"">>, value |-> <<"1", " ", "2">>,
       close |-> <<"\"">>, gap |-> <<" ">>, hash |-> <<"#">>, indent |-> <<" ">>,
       word1 |-> <<"s", "k", "o", "p", "e", "o">>, space1 |-> <<" ">>,
       word2 |-> <<"l", "i", "s", "t", "-", "t", "a", "g", "s">>, space2 |-> <<" ">>,
       rest |-> <<"x">>, trail |-> <<>>],
      \* nothing behind list-tags
      [lead |-> <<>>, variable |-> <<"j", "_", "i", "m", "a", "g", "e", "_", "t", "a", "g">>,
       colon |-> <<":">>, pre |-> <<" ">>, open |-> <<"\"">>, value |-> <<"1", ".", "2">>,
       close |-> <<"\"">>, gap |-> <<" ">>, hash |-> <<"#">>, indent |-> <<" ">>,
       word1 |-> <<"s", "k", "o", "p", "e", "o">>, space1 |-> <<" ">>,
       word2 |-> <<"l", "i", "s", "t", "-", "t", "a", "g", "s">>, space2 |-> <<>>,
       rest |-> <<>>, trail |-> <<>>],
      \* no name before _image_tag
      [lead |-> <<>>, variable |-> <<"_", "i", "m", "a", "g", "e", "_", "t", "a", "g">>,
       colon |-> <<":">>, pre |-> <<" ">>, open |-> <<"\"">>, value |-> <<"1", ".", "2">>,
       close |-> <<"\"">>, gap |-> <<" ">>, hash |-> <<"#">>, indent |-> <<" ">>,
       word1 |-> <<"s", "k", "o", "p", "e", "o">>, space1 |-> <<" ">>,
       word2 |-> <<"l", "i", "s", "t", "-", "t", "a", "g", "s">>, space2 |-> <<" ">>,
       rest |-> <<"x">>, trail |-> <<>>],
      \* text before skopeo
      [lead |-> <<>>, variable |-> <<"k", "_", "i", "m", "a", "g", "e", "_", "t", "a", "g">>,
       colon |-> <<":">>, pre |-> <<" ">>, open |-> <<"\"">>, value |-> <<"1", ".", "2">>,
       close |-> <<"\"">>, gap |-> <<" ">>, hash |-> <<"#">>, indent |-> <<" ">>,
       word1 |-> <<"r", "u", "n">>, space1 |-> <<" ">>, word2 |-> <<>>, space2 |-> <<>>,
       rest |-> <<"s", "k", "o", "p", "e", "o", " ", "l", "i", "s", "t", "-", "t", "a", "g", "s", " ", "y">>,
       trail |-> <<>>]
    }

\* The text of a line
Render(r) ==
    r.lead \o r.variable \o r.colon \o r.pre \o r.open \o r.value \o r.close
    \o r.gap \o r.hash \o r.indent \o r.word1 \o r.space1 \o r.word2 \o r.space2
    \o r.rest \o r.trail

LinePool == {Render(r) : r \in LineShapes}

InitExtract ==
    /\ pc = "call"
    /\ file \in {[state |-> "ok", lines |-> d] : d \in SeqsUpTo(LinePool, MaxLines)}
    /\ image_tags = <<>>
    /\ args = [json |-> FALSE, updates_only |-> FALSE]
    /\ results = <<>>
    /\ updates_available = 0
    /\ status = None
    /\ next_item = 0
    /\ proc = <<>>
    /\ exit_code = None
    /\ arg_tags = <<>>
    /\ ret_keys = <<>>
    /\ ret_latest = None

\* parse_image_tag_lines is called on the file
CallParseImageTagLines ==
    /\ pc = "call"
    /\ image_tags' = parse_image_tag_lines(file.lines)
    /\ pc' = "done"
    /\ UNCHANGED <<args, file, results, updates_available, status, next_item,
                   proc, exit_code, arg_tags, ret_keys, ret_latest>>

NextExtract == CallParseImageTagLines

SpecExtract == InitExtract /\ [][NextExtract]_vars


-----------------------------------------------------------------------------
(* Properties of parse_version and get_latest_tag (SpecVersion)            *)

\* The purely numeric tags of TagPool and the integers they spell
NumericTable ==
    { [tag |-> <<"1", "6", ".", "9">>, ints |-> <<16, 9>>],
      [tag |-> <<"1", "6", ".", "1", "1">>, ints |-> <<16, 11>>],
      [tag |-> <<"1", "6">>, ints |-> <<16>>],
      [tag |-> <<"1", "6", ".", "0">>, ints |-> <<16, 0>>],
      [tag |-> <<"3", ".", "6", ".", "5">>, ints |-> <<3, 6, 5>>],
      [tag |-> <<"3", "-", "1", "3">>, ints |-> <<3, 13>>],
      [tag |-> <<"3", ".", "1", "3">>, ints |-> <<3, 13>>] }

IsNumericTag(tag) == \E r \in NumericTable : r.tag = tag
IntsOf(tag) == (CHOOSE r \in NumericTable : r.tag = tag).ints

\* a < b for two sequences of integers, position by position
RECURSIVE LexLess(_, _)
LexLess(a, b) ==
    IF b = <<>> THEN FALSE
    ELSE IF a = <<>> THEN TRUE
    ELSE IF Head(a) # Head(b) THEN Head(a) < Head(b)
    ELSE LexLess(Tail(a), Tail(b))

TagIndexes == 1..Len(arg_tags)

\* A key is the fallback sentinel when it carries the tag itself.
IsFallbackKey(key) == key[Len(key)].kind = "str"
FallbackIndexes == {i \in TagIndexes : IsFallbackKey(ret_keys[i])}

\* C2: when the list holds a tag whose key is the fallback sentinel,
\* get_latest_tag returns such a tag and none with a numeric key, and of
\* several it returns the one whose spelling is the greatest as a str.
C2_FallbackIsLatest ==
    (pc = "done" /\ FallbackIndexes # {}) =>
        /\ ret_latest # None
        /\ \E i \in FallbackIndexes :
              /\ ret_latest[1] = arg_tags[i]
              /\ \A j \in FallbackIndexes : ~StrLess(arg_tags[i], arg_tags[j])
        /\ \A j \in TagIndexes \ FallbackIndexes : ret_latest[1] # arg_tags[j]

\* Two different fallback tags and a numeric tag were listed, and the greater
\* fallback tag came out.
C2_Witness ==
    /\ pc = "done"
    /\ \E i, j \in FallbackIndexes :
          /\ StrLess(arg_tags[i], arg_tags[j])
          /\ ret_latest = Some(arg_tags[j])
    /\ \E k \in TagIndexes : IsNumericTag(arg_tags[k])

\* C3: the keys of two purely numeric tags compare as their integers do,
\* position by position, a proper prefix being the lesser, and of a list of
\* such tags get_latest_tag returns one whose integers are the maximum.
C3_NumericOrder ==
    /\ pc \in {"keys", "done"} =>
          \A i, j \in TagIndexes :
              (IsNumericTag(arg_tags[i]) /\ IsNumericTag(arg_tags[j])) =>
                  (TupleLess(ret_keys[i], ret_keys[j])
                      <=> LexLess(IntsOf(arg_tags[i]), IntsOf(arg_tags[j])))
    /\ (/\ pc = "done"
        /\ arg_tags # <<>>
        /\ \A i \in TagIndexes : IsNumericTag(arg_tags[i])) =>
          /\ ret_latest # None
          /\ \E i \in TagIndexes :
                /\ ret_latest[1] = arg_tags[i]
                /\ \A j \in TagIndexes :
                       ~LexLess(IntsOf(arg_tags[i]), IntsOf(arg_tags[j]))

Tag_16 == <<"1", "6">>
Tag_16_0 == <<"1", "6", ".", "0">>
Tag_16_9 == <<"1", "6", ".", "9">>
Tag_16_11 == <<"1", "6", ".", "1", "1">>

\* 16.9, 16.11 and 16.0 were listed: 16.9 is below 16.11, and 16.11 came out.
C3_Witness ==
    /\ pc = "done"
    /\ arg_tags = <<Tag_16_9, Tag_16_11, Tag_16_0>>
    /\ TupleLess(ret_keys[1], ret_keys[2])
    /\ TupleLess(parse_version(Tag_16), ret_keys[3])
    /\ ret_latest = Some(Tag_16_11)

\* The prefixes that C4 names
NamedPrefixes ==
    { <<"v">>,
      <<"v", "e", "r", "s", "i", "o", "n", "-", "v">>,
      <<"v", "e", "r", "s", "i", "o", "n", "-">> }

\* C4: a numeric version with one of the prefixes v, version-v and version-
\* in front of it has the key of the version without the prefix.
C4_PrefixedKeyEqualsPlain ==
    pc \in {"keys", "done"} =>
        \A i, j \in TagIndexes :
            (/\ IsNumericTag(arg_tags[j])
             /\ \E prefix \in NamedPrefixes : arg_tags[i] = prefix \o arg_tags[j]) =>
                ret_keys[i] = ret_keys[j]

\* The indexes of the tags that no tag of the list exceeds
TopIndexes ==
    {i \in TagIndexes : \A j \in TagIndexes : ~TupleLess(ret_keys[i], ret_keys[j])}

\* C8: of the tags that share the highest key, get_latest_tag returns the
\* one that comes first in the list.
C8_FirstOfEqualKeys ==
    (pc = "done" /\ arg_tags # <<>>) =>
        /\ TopIndexes # {}
        /\ LET first == CHOOSE i \in TopIndexes : \A j \in TopIndexes : i <= j
           IN  ret_latest = Some(arg_tags[first])

\* Two spellings of the highest key were listed, and the earlier came out.
C8_Witness ==
    /\ pc = "done"
    /\ \E i, j \in TopIndexes :
          /\ i < j
          /\ arg_tags[i] # arg_tags[j]
          /\ \A k \in TopIndexes : i <= k
          /\ ret_latest = Some(arg_tags[i])


-----------------------------------------------------------------------------
(* Properties of parse_image_tag_lines (SpecExtract)                       *)

Blank(s) == \A i \in 1..Len(s) : s[i] \in Whitespace

OptionalQuote(s) == s = <<>> \/ s = <<"\"">> \/ s = <<"'">>

\* The matching rule on the parts of a line: an identifier that ends in
\* _image_tag, a colon, a value with or without quotes that holds no blank,
\* quote or #, and a # comment that begins with skopeo list-tags and goes on.
Qualifies(r) ==
    /\ Len(r.variable) > Len(ImageTagSuffix)
    /\ \A i \in 1..Len(r.variable) : IsWord(r.variable[i])
    /\ SubSeq(r.variable, Len(r.variable) - Len(ImageTagSuffix) + 1,
              Len(r.variable)) = ImageTagSuffix
    /\ r.colon = <<":">>
    /\ Blank(r.pre)
    /\ OptionalQuote(r.open)
    /\ r.value # <<>>
    /\ \A i \in 1..Len(r.value) : r.value[i] \notin Whitespace \cup Quotes \cup {"#"}
    /\ OptionalQuote(r.close)
    /\ Blank(r.gap)
    /\ r.hash = <<"#">>
    /\ Blank(r.indent)
    /\ r.word1 = SkopeoWord
    /\ r.space1 # <<>> /\ Blank(r.space1)
    /\ r.word2 = ListTagsWord
    /\ r.space2 # <<>> /\ Blank(r.space2)
    /\ r.rest # <<>>

\* The text of a line behind its first #
AfterHash(line) ==
    LET hashes == {i \in 1..Len(line) : line[i] = "#"}
        first == CHOOSE i \in hashes : \A j \in hashes : i <= j
    IN  SubSeq(line, first + 1, Len(line))

\* C9: parse_image_tag_lines returns one entry for every qualifying line and
\* none for another line, in the order of the document; line numbers count
\* from 1 and increase; every variable ends in _image_tag behind a name, and
\* every command begins with skopeo and list-tags and is all of the comment
\* behind the #, without the blanks around it.
C9_Extraction ==
    pc = "done" =>
        /\ \A n \in 1..Len(file.lines) : \A r \in LineShapes :
              Render(r) = file.lines[n] =>
                  LET hits == {k \in 1..Len(image_tags) :
                                  image_tags[k].line_number = n}
                  IN  IF Qualifies(r)
                      THEN \E k \in 1..Len(image_tags) :
                              /\ hits = {k}
                              /\ image_tags[k].variable = r.variable
                              /\ image_tags[k].current_value = r.value
                              /\ image_tags[k].skopeo_command =
                                     r.word1 \o r.space1 \o r.word2 \o r.space2
                                     \o r.rest
                      ELSE hits = {}
        /\ \A k \in 1..Len(image_tags) :
              LET e == image_tags[k]
              IN  /\ e.line_number \in 1..Len(file.lines)
                  /\ k > 1 => image_tags[k - 1].line_number < e.line_number
                  /\ Len(e.variable) > Len(ImageTagSuffix)
                  /\ SubSeq(e.variable, Len(e.variable) - Len(ImageTagSuffix) + 1,
                            Len(e.variable)) = ImageTagSuffix
                  /\ e.current_value # <<>>
                  /\ startswith(e.skopeo_command, SkopeoWord)
                  /\ e.skopeo_command = strip(AfterHash(file.lines[e.line_number]))

\* A line with another comment came before a declaration with blanks around
\* it: the one entry has line number 2.
C9_Witness ==
    /\ pc = "done"
    /\ Len(file.lines) = 2
    /\ \E r \in LineShapes :
          /\ Render(r) = file.lines[1]
          /\ r.hash = <<"#">>
          /\ r.word1 # SkopeoWord
    /\ \E r \in LineShapes :
          /\ Render(r) = file.lines[2]
          /\ Qualifies(r)
          /\ r.lead # <<>>
    /\ Len(image_tags) = 1
    /\ image_tags[1].line_number = 2

-----------------------------------------------------------------------------
(* Properties of main (Spec)                                               *)

Statuses == {"up-to-date", "update-available", "unknown", "error"}

\* The enumeration failed: a non-zero exit, a timeout or another fault
Failed(run) == run.kind # "exit" \/ run.returncode # 0

\* The output holds a line that is not blank
HasTagLine(text) == \E i \in 1..Len(text) : text[i] \notin Whitespace

\* The tags a run lists (none when it failed)
TagsOf(run) == IF Failed(run) THEN <<>> ELSE run_skopeo_command(run)[1]

Elements(q) == {q[i] : i \in 1..Len(q)}

\* While the loop runs, results[i] and proc[i] belong to image_tags[i].
Checked == 1..Len(results)

\* C1: the status of a result is one of four values and is decided by the
\* enumeration: error with no latest tag exactly when it failed, unknown
\* with no latest tag exactly when it exited with 0 and wrote no line that is
\* not blank, and else up-to-date exactly when the latest tag is the current
\* value, character for character, and update-available when it is not.
C1_StatusByOutcome ==
    pc = "loop" =>
        /\ Len(proc) = Len(results)
        /\ \A i \in Checked :
              LET r == results[i]
                  run == proc[i]
              IN  /\ r.status \in Statuses
                  /\ r.status = "error" <=> Failed(run)
                  /\ r.status = "unknown"
                         <=> (~Failed(run) /\ ~HasTagLine(run.stdout))
                  /\ r.status \in {"error", "unknown"} => r.latest_value = None
                  /\ r.status \in {"up-to-date", "update-available"} =>
                         /\ r.latest_value # None
                         /\ r.status = "up-to-date"
                                <=> r.latest_value[1] = r.current_value

\* One enumeration failed, and the other listed the current value as the
\* latest tag.
C1_Witness ==
    /\ pc = "loop"
    /\ \E i, j \in Checked :
          /\ results[i].status = "error"
          /\ proc[i].kind = "exit"
          /\ results[j].status = "up-to-date"
          /\ results[j].latest_value = Some(results[j].current_value)

\* C5 as it is stated: a current value that is among the tags listed is
\* up-to-date.
C5_ListedIsUpToDate ==
    pc = "loop" =>
        \A i \in Checked :
            results[i].current_value \in Elements(TagsOf(proc[i])) =>
                results[i].status = "up-to-date"

\* current is the tag that ranks first: no tag of the list has a greater
\* key, and no other spelling of its key comes before it.
RanksFirst(current, tags) ==
    /\ \A j \in 1..Len(tags) :
          ~TupleLess(parse_version(current), parse_version(tags[j]))
    /\ \A j \in 1..Len(tags) :
          (parse_version(tags[j]) = parse_version(current) /\ tags[j] # current) =>
              \E k \in 1..(j - 1) : tags[k] = current

\* C5, amended: a current value that is among the tags listed is up-to-date
\* exactly when it is the tag that ranks first, and is update-available when
\* another tag ranks before it.
C5_ListedIsUpToDateIfLatest ==
    pc = "loop" =>
        \A i \in Checked :
            results[i].current_value \in Elements(TagsOf(proc[i])) =>
                /\ results[i].status \in {"up-to-date", "update-available"}
                /\ results[i].status = "up-to-date"
                       <=> RanksFirst(results[i].current_value, TagsOf(proc[i]))

\* The current value was listed with a tag of a greater key, and the result
\* is update-available.
C5_Witness ==
    /\ pc = "loop"
    /\ \E i \in Checked :
          /\ results[i].current_value \in Elements(TagsOf(proc[i]))
          /\ \E t \in Elements(TagsOf(proc[i])) :
                TupleLess(parse_version(results[i].current_value), parse_version(t))
          /\ results[i].status = "update-available"

\* C6: the loop takes the sources one by one in the order of the document
\* and appends one result for each, which stays as it is; a failed
\* enumeration marks its own result and the loop goes on, so the process
\* ends only after every source was checked.
C6_OneResultPerSource ==
    /\ [](pc = "loop" =>
            /\ next_item \in 1..(Len(image_tags) + 1)
            /\ Len(results) = next_item - 1
            /\ Len(proc) = next_item - 1
            /\ \A i \in Checked :
                  /\ results[i].variable = image_tags[i].variable
                  /\ results[i].line_number = image_tags[i].line_number
                  /\ results[i].status = "error" <=> Failed(proc[i]))
    /\ []((pc \in {"exited", "crashed"} /\ image_tags # <<>>) =>
            Len(proc) = Len(image_tags))
    /\ [][(pc = "loop" /\ pc' = "loop") =>
            /\ next_item' = next_item + 1
            /\ Len(results') = Len(results) + 1
            /\ SubSeq(results', 1, Len(results)) = results]_vars

\* The first of two enumerations failed and the second did not; both have
\* their result and the loop is over.
C6_Witness ==
    /\ pc = "loop"
    /\ next_item > Len(image_tags)
    /\ Len(results) = 2
    /\ Failed(proc[1]) /\ results[1].status = "error"
    /\ ~Failed(proc[2]) /\ results[2].status # "error"

\* C7: a run that has extracted a source exits, and with a non-zero status
\* exactly when a result is update-available.
C7_ExitStatus ==
    (pc \in {"exited", "crashed"} /\ image_tags # <<>>) =>
        /\ pc = "exited"
        /\ exit_code # Some(0)
               <=> \E i \in 1..Len(results) : results[i].status = "update-available"

\* C10: all_tags is the last ten of the tags listed, or all of them when
\* they are fewer, in the order listed, and is empty when the enumeration
\* failed or listed nothing; the latest tag is a tag of the whole list that
\* no tag of the list exceeds.
C10_LastTenTags ==
    pc = "loop" =>
        \A i \in Checked :
            LET r == results[i]
                tags == TagsOf(proc[i])
                n == IF Len(tags) < KeepTags THEN Len(tags) ELSE KeepTags
            IN  /\ Len(r.all_tags) = n
                /\ \A k \in 1..n : r.all_tags[k] = tags[Len(tags) - n + k]
                /\ tags # <<>> =>
                      /\ r.latest_value # None
                      /\ r.latest_value[1] \in Elements(tags)
                      /\ \A t \in Elements(tags) :
                            ~TupleLess(parse_version(r.latest_value[1]),
                                       parse_version(t))

\* MaxOut tags were listed with the latest first: the last ten were kept,
\* and the latest is not among them.
C10_Witness ==
    /\ pc = "loop"
    /\ \E i \in Checked :
          /\ proc[i] = Exited(0, Listing(MaxOut))
          /\ Len(results[i].all_tags) = KeepTags
          /\ results[i].all_tags[1] = ListedTag(MaxOut - KeepTags + 1)
          /\ results[i].all_tags[KeepTags] = ListedTag(MaxOut)
          /\ results[i].latest_value = Some(ListedTag(1))
          /\ ListedTag(1) \notin Elements(results[i].all_tags)

=============================================================================
